---- MODULE Spec2Model ----
(***************************************************************************)
(* A model of destiny_armor_ranker.py: process_armor_csv reads a table of  *)
(* armor rows, derives the per-row metrics, runs select_armor once for     *)
(* each of the twelve (class, slot) categories, tags the rows that were    *)
(* not selected as junk and writes the table back.                         *)
(*                                                                         *)
(* A data frame is a sequence of rows; a row is a function from column     *)
(* names to cell values; the index label of a row is its position.         *)
(* scipy's two matching routines are modelled by their contract: any       *)
(* maximum-cardinality matching, and any full matching of optimal weight.  *)
(***************************************************************************)
EXTENDS Integers, Sequences, FiniteSets, TLC

\* ------------------------------------------------------------- bounds
\* The longest input table.
MaxRows == 3
\* The largest value of the --num flag.
MaxN == 3

\* ------------------------------------------------- argparse defaults
min_points == 10
point_threshold == 15

\* The values of --min_stat_total that are tried: the default of this
\* program and a lower one.
MinStatTotals == {60, 62}

\* ------------------------------------------------ the program's tables
classes == <<"Hunter", "Titan", "Warlock">>
types == <<"Helmet", "Gauntlets", "Chest Armor", "Leg Armor">>
block_a == <<"Mobility", "Resilience", "Recovery">>
block_b == <<"Discipline", "Intellect", "Strength">>
stats == block_a \o block_b

\* it.product(_block_a, _block_b), in its order; label i (from 0) is combos[i+1].
combos == [n \in 1..(Len(block_a) * Len(block_b)) |->
             <<block_a[((n - 1) \div Len(block_b)) + 1],
               block_b[((n - 1) % Len(block_b)) + 1]>>]

\* it.product(_classes, _types), in its order.
Categories == [n \in 1..(Len(classes) * Len(types)) |->
                 <<classes[((n - 1) \div Len(types)) + 1],
                   types[((n - 1) % Len(types)) + 1]>>]

BaseCol(stat) == stat \o " (Base)"
HighCol(stat) == "High " \o stat

\* ------------------------------------------------------ the input rows
\* A row of the file: the columns the program reads, and "Id", one of the
\* columns it never looks at.
Row(id, class_, type_, tier, tag, mob, res, rec, dis, int, str) ==
    ("Id" :> id) @@
    ("Equippable" :> class_) @@ ("Type" :> type_) @@ ("Tier" :> tier) @@
    ("Tag" :> tag) @@
    ("Mobility (Base)" :> mob) @@ ("Resilience (Base)" :> res) @@
    ("Recovery (Base)" :> rec) @@ ("Discipline (Base)" :> dis) @@
    ("Intellect (Base)" :> int) @@ ("Strength (Base)" :> str) @@
    ("Total (Base)" :> mob + res + rec + dis + int + str)

\* The rows an input table is made of.
RowPool ==
    << Row("a", "Hunter", "Helmet", "Legendary", "favorite", 28, 3, 3, 22, 3, 3),
       Row("b", "Hunter", "Helmet", "Legendary", "", 20, 4, 3, 20, 12, 3),
       Row("c", "Hunter", "Helmet", "Legendary", "", 30, 3, 3, 20, 3, 3),
       Row("d", "Hunter", "Helmet", "Legendary", "infuse", 30, 3, 3, 20, 3, 3),
       Row("e", "Hunter", "Helmet", "Legendary", "", 2, 2, 30, 2, 3, 22),
       Row("f", "Hunter", "Helmet", "Legendary", "keep", 30, 26, 2, 2, 2, 2),
       Row("g", "Hunter", "Helmet", "Exotic", "junk", 2, 2, 2, 2, 2, 2),
       Row("h", "Hunter", "Hunter Cloak", "Legendary", "", 30, 3, 3, 20, 3, 3),
       Row("i", "Titan", "Gauntlets", "Rare", "keep", 30, 3, 3, 20, 3, 3),
       Row("j", "Titan", "Gauntlets", "Legendary", "", 3, 30, 3, 3, 20, 3) >>

\* The input tables: up to MaxRows different rows of the pool. select_armor
\* reaches a row through its index label only and the order of equal rows
\* after the sort is left open below, so one order of each choice of rows is
\* enough.
Tables ==
    UNION { { [i \in 1..n |-> RowPool[f[i]]] :
                f \in { g \in [1..n -> DOMAIN RowPool] :
                          \A i \in 1..(n - 1) : g[i] < g[i + 1] } }
            : n \in 1..MaxRows }

VARIABLES
    csv_in,          \* the file that is read
    N,               \* --num
    min_stat_total,  \* --min_stat_total
    pc,              \* where process_armor_csv is
    data_orig,       \* the frame read from the file
    data,            \* its copy, with the derived columns
    cat,             \* how many categories have been through select_armor
    data_subset,     \* select_armor: the sorted index labels of the subset
    graph,           \* select_armor: the graph of line 57
    remaining_cols,  \* select_armor: the columns kept for the weighted solve
    row_ind,         \* select_armor: the rows of the weighted matching
    col_ind,         \* select_armor: its columns, in the reduced graph
    csv_out          \* the file that is written

vars == <<csv_in, N, min_stat_total, pc, data_orig, data, cat, data_subset,
          graph, remaining_cols, row_ind, col_ind, csv_out>>

locals == <<data_subset, graph, remaining_cols, row_ind, col_ind>>

NoGraph == [shape |-> <<0, 0>>, data |-> <<>>]

Init ==
    /\ csv_in \in Tables
    /\ N \in 1..MaxN
    /\ min_stat_total \in MinStatTotals
    /\ pc = "read"
    /\ data_orig = <<>>
    /\ data = <<>>
    /\ cat = 0
    /\ data_subset = <<>>
    /\ graph = NoGraph
    /\ remaining_cols = <<>>
    /\ row_ind = <<>>
    /\ col_ind = <<>>
    /\ csv_out = <<>>

\* ------------------------------------------------------------ helpers
RECURSIVE SumSeq(_)
SumSeq(s) == IF s = <<>> THEN 0 ELSE Head(s) + SumSeq(Tail(s))

RemoveAt(s, i) == SubSeq(s, 1, i - 1) \o SubSeq(s, i + 1, Len(s))

\* np.sort(x)[::-1]
RECURSIVE SortDesc(_)
SortDesc(s) ==
    IF s = <<>> THEN <<>>
    ELSE LET m == CHOOSE i \in 1..Len(s) : \A j \in 1..Len(s) : s[i] >= s[j]
         IN  <<s[m]>> \o SortDesc(RemoveAt(s, m))

\* The ascending sequence of a set of integers.
RECURSIVE Ascending(_)
Ascending(S) ==
    IF S = {} THEN <<>>
    ELSE LET m == CHOOSE x \in S : \A y \in S : x <= y
         IN  <<m>> \o Ascending(S \ {m})

\* Every ordering of a finite set, as sequences.
RECURSIVE Orderings(_)
Orderings(S) ==
    IF S = {} THEN {<<>>}
    ELSE UNION { { <<x>> \o p : p \in Orderings(S \ {x}) } : x \in S }

Range(s) == { s[i] : i \in DOMAIN s }

Min(a, b) == IF a <= b THEN a ELSE b

\* ------------------------------------ process_armor_csv: derived columns
StatValues(r) == [n \in 1..Len(stats) |-> r[BaseCol(stats[n])]]

\* data["High <stat>"] = data["<stat> (Base)"] >= min_points
HighStat(r, stat) == r[BaseCol(stat)] >= min_points

\* data["Top i"]: the sum of the i largest base stats of the row
Top(r, i) == SumSeq(SubSeq(SortDesc(StatValues(r)), 1, i))

\* sum(data["High <stat>"] for stat in _stats)
TotalHighStats(r) == Cardinality({ n \in 1..Len(stats) : HighStat(r, stats[n]) })

NotTrash(r, mst) ==
    /\ r["Total (Base)"] >= mst
    /\ TotalHighStats(r) >= 2
    /\ Top(r, 1) >= point_threshold
    /\ Top(r, 2) >= point_threshold + min_points

\* data["Selected"] = (data["Tier"] == "Exotic")
InitSelected(r) == r["Tier"] = "Exotic"

HighColumns == { HighCol(stats[n]) : n \in 1..Len(stats) }

DerivedColumns ==
    HighColumns \cup {"Top 1", "Top 2", "Top 3", "Total High Stats", "Not Trash", "Selected"}

Derive(r, mst) ==
    r @@
    [c \in HighColumns |->
        HighStat(r, stats[CHOOSE n \in 1..Len(stats) : HighCol(stats[n]) = c])] @@
    ("Top 1" :> Top(r, 1)) @@ ("Top 2" :> Top(r, 2)) @@ ("Top 3" :> Top(r, 3)) @@
    ("Total High Stats" :> TotalHighStats(r)) @@
    ("Not Trash" :> NotTrash(r, mst)) @@
    ("Selected" :> InitSelected(r))

\* ------------------------------------------------------- select_armor
\* The filter without its Not Trash term.
QueryIgnoringNotTrash(d, class_, type_) ==
    { i \in DOMAIN d : /\ d[i]["Equippable"] = class_
                       /\ d[i]["Type"] = type_
                       /\ d[i]["Tier"] = "Legendary" }

\* The filter without its Tier term.
QueryAnyTier(d, class_, type_) ==
    { i \in DOMAIN d : /\ d[i]["Equippable"] = class_
                       /\ d[i]["Type"] = type_
                       /\ d[i]["Not Trash"] }

\* data.query("Equippable == c & Type == t & Tier == 'Legendary' & `Not Trash`")
Query(d, class_, type_) ==
    { i \in DOMAIN d : /\ d[i]["Equippable"] = class_
                       /\ d[i]["Type"] = type_
                       /\ d[i]["Tier"] = "Legendary"
                       /\ d[i]["Not Trash"] }

SortKey(r) == <<r["Top 2"], r["Top 1"], r["Top 3"], r["Total (Base)"]>>

\* a comes no later than b in a descending sort by the four keys
RECURSIVE LexGE(_, _)
LexGE(a, b) ==
    \/ a = <<>>
    \/ Head(a) > Head(b)
    \/ Head(a) = Head(b) /\ LexGE(Tail(a), Tail(b))

\* sort_values(by=[...], ascending=False): rows with four equal keys may come
\* out in either order.
SortValues(d, S) ==
    { p \in Orderings(S) :
        \A a \in 1..Len(p) : \A b \in 1..Len(p) :
            a < b => LexGE(SortKey(d[p[a]]), SortKey(d[p[b]])) }

\* The ranks without the reversal: np.arange(k) + 1.
RankAscending(k) == [i \in 0..(k - 1) |-> i + 1]

\* np.arange(k)[::-1] + 1, by position (from 0) in the sorted subset
Rank(k) == [i \in 0..(k - 1) |-> k - i]

\* data_subset[label]: both stats of combo i (from 0) are high
ComboHigh(r, i) == r[HighCol(combos[i + 1][1])] /\ r[HighCol(combos[i + 1][2])]

\* One slot too many for each label: range(N + 1).
columnsOneMore(n) == [i \in 0..(Len(combos) - 1) |-> { i * n + j : j \in 0..n }]

\* columns = {label: [i * N + j for j in range(N)] ...}
columns(n) == [i \in 0..(Len(combos) - 1) |-> { i * n + j : j \in 0..(n - 1) }]

\* (row_ind, col_ind): one entry for a row and every slot of a combo it is high in
Entries(d, subset, n) ==
    UNION { UNION { IF ComboHigh(d[subset[i + 1]], l)
                    THEN { <<i, j>> : j \in columns(n)[l] }
                    ELSE {} : l \in 0..(Len(combos) - 1) }
            : i \in 0..(Len(subset) - 1) }

\* shape=(len(data_subset), 2 * len(labels))
GraphShape(k) == <<k, 2 * Len(combos)>>

\* csr_matrix raises ValueError for an index outside the shape
CsrRaises(entries, shape) ==
    \E e \in entries : e[1] >= shape[1] \/ e[2] >= shape[2]

CsrMatrix(entries, k, shape) ==
    [shape |-> shape, data |-> [e \in entries |-> Rank(k)[e[1]]]]

Free(g, m, r) ==
    { e \in DOMAIN g.data : e[1] = r /\ \A f \in m : f[2] # e[2] }

\* Every matching of the graph that uses rows below r only.
RECURSIVE MatchingsBelow(_, _)
MatchingsBelow(g, r) ==
    IF r = 0 THEN {{}}
    ELSE LET prev == MatchingsBelow(g, r - 1)
         IN  prev \cup UNION { { m \cup {e} : e \in Free(g, m, r - 1) } : m \in prev }

Matchings(g) == MatchingsBelow(g, g.shape[1])

MaxCard(ms) == CHOOSE n \in 0..MaxRows + 1 :
                  /\ \E m \in ms : Cardinality(m) = n
                  /\ \A m \in ms : Cardinality(m) <= n

\* maximum_bipartite_matching(graph), perm_type='row': for each column the row
\* it is matched to, or -1; any matching of maximum cardinality
MaximumBipartiteMatching(g) ==
    LET ms == Matchings(g)
        best == MaxCard(ms)
    IN  { [j \in 0..(g.shape[2] - 1) |->
              IF \E e \in m : e[2] = j
              THEN (CHOOSE e \in m : e[2] = j)[1]
              ELSE -1]
          : m \in { x \in ms : Cardinality(x) = best } }

\* The comparison off by one: np.where(matching <= 0).
EmptyColsNonPositive(matching) == { j \in DOMAIN matching : matching[j] <= 0 }

\* empty_cols, = np.where(matching < 0)
EmptyCols(matching) == { j \in DOMAIN matching : matching[j] < 0 }

\* [i for i in range(graph.shape[1]) if i not in empty_cols]
RemainingCols(g, empty_cols) ==
    Ascending({ i \in 0..(g.shape[2] - 1) : i \notin empty_cols })

\* csr_matrix(csc_matrix(graph)[:, remaining_cols]), when a column is empty
Reduced(g, empty_cols) ==
    IF empty_cols = {} THEN g
    ELSE LET rem == RemainingCols(g, empty_cols)
             ent == { <<e[1], p>> : e \in { x \in DOMAIN g.data : x[2] \in Range(rem) },
                                    p \in 0..(Len(rem) - 1) }
             kept == { x \in (0..(g.shape[1] - 1)) \X (0..(Len(rem) - 1)) :
                          <<x[1], rem[x[2] + 1]>> \in DOMAIN g.data }
         IN  [shape |-> <<g.shape[1], Len(rem)>>,
              data |-> [x \in kept |-> g.data[<<x[1], rem[x[2] + 1]>>]]]

RECURSIVE SumOver(_, _)
SumOver(f, S) ==
    IF S = {} THEN 0
    ELSE LET x == CHOOSE y \in S : TRUE IN f[x] + SumOver(f, S \ {x})

Weight(g, m) == SumOver(g.data, m)

\* min_weight_full_bipartite_matching(graph, maximize): any matching of
\* min(shape) edges whose weight is optimal, as (row_ind, col_ind) with the
\* rows ascending; no result (ValueError) when there is no full matching
MinWeightFullBipartiteMatching(g, maximize) ==
    LET full == { m \in Matchings(g) : Cardinality(m) = Min(g.shape[1], g.shape[2]) }
        best == { m \in full :
                    \A o \in full : IF maximize THEN Weight(g, m) >= Weight(g, o)
                                                ELSE Weight(g, m) <= Weight(g, o) }
    IN  { LET rows == Ascending({ e[1] : e \in m })
          IN  <<rows, [p \in 1..Len(rows) |-> (CHOOSE e \in m : e[1] = rows[p])[2]]>>
          : m \in best }

\* The weighted solve without maximize=True.
WeightedSolveMinimize(g) == MinWeightFullBipartiteMatching(g, FALSE)

\* line 66
WeightedSolve(g) == MinWeightFullBipartiteMatching(g, TRUE)

\* The marking as an assignment of the whole column: Selected = (row is matched).
MarkSelectedOverwriting(d, subset, rows) ==
    [i \in DOMAIN d |->
        [d[i] EXCEPT !["Selected"] = \E p \in DOMAIN rows : subset[rows[p] + 1] = i]]

\* for i in row_ind: data.loc[data_subset.iloc[i].name, "Selected"] = True
MarkSelected(d, subset, rows) ==
    [i \in DOMAIN d |->
        IF \E p \in DOMAIN rows : subset[rows[p] + 1] = i
        THEN [d[i] EXCEPT !["Selected"] = TRUE]
        ELSE d[i]]

\* --------------------------------------------- process_armor_csv: junk
\* The junk filter without the Hunter Cloak term.
JunkQueryNoCloak(d) ==
    { i \in DOMAIN d : /\ ~d[i]["Selected"]
                       /\ d[i]["Type"] # "Titan Mark"
                       /\ d[i]["Type"] # "Warlock Bond" }

\* data.query("not Selected & Type != 'Hunter Cloak' & Type != 'Titan Mark' & ...")
JunkQuery(d) ==
    { i \in DOMAIN d : /\ ~d[i]["Selected"]
                       /\ d[i]["Type"] # "Hunter Cloak"
                       /\ d[i]["Type"] # "Titan Mark"
                       /\ d[i]["Type"] # "Warlock Bond" }

\* The tagging as an assignment of the whole column: junk or nothing.
SetTagClearing(orig, junk) ==
    [i \in DOMAIN orig |->
        [orig[i] EXCEPT !["Tag"] = IF i \in junk THEN "junk" ELSE ""]]

\* data_orig.loc[junk.index.values, "Tag"] = "junk"
SetTag(orig, junk) ==
    [i \in DOMAIN orig |->
        IF i \in junk THEN [orig[i] EXCEPT !["Tag"] = "junk"] ELSE orig[i]]

\* ------------------------------------------------------------ actions
\* lines 132-133
ReadCsv ==
    /\ pc = "read"
    /\ data_orig' = csv_in
    /\ data' = csv_in
    /\ pc' = "derive"
    /\ UNCHANGED <<csv_in, N, min_stat_total, cat, locals, csv_out>>

\* lines 135-149
DeriveColumns ==
    /\ pc = "derive"
    /\ data' = [i \in DOMAIN data |-> Derive(data[i], min_stat_total)]
    /\ pc' = "select"
    /\ UNCHANGED <<csv_in, N, min_stat_total, data_orig, cat, locals, csv_out>>

\* One round of the loop of lines 151-152: select_armor returns.
SelectArmorReturns ==
    /\ pc = "select"
    /\ \E subset \in SortValues(data, Query(data, Categories[cat + 1][1],
                                                  Categories[cat + 1][2])) :
         LET entries == Entries(data, subset, N)
             shape == GraphShape(Len(subset))
         IN  /\ ~CsrRaises(entries, shape)
             /\ LET g == CsrMatrix(entries, Len(subset), shape)
                IN  \E empty_cols \in { EmptyCols(matching) :
                                          matching \in MaximumBipartiteMatching(g) } :
                      \E res \in WeightedSolve(Reduced(g, empty_cols)) :
                         /\ data' = MarkSelected(data, subset, res[1])
                         /\ data_subset' = subset
                         /\ graph' = g
                         /\ remaining_cols' = RemainingCols(g, empty_cols)
                         /\ row_ind' = res[1]
                         /\ col_ind' = res[2]
    /\ cat' = cat + 1
    /\ pc' = IF cat + 1 = Len(Categories) THEN "junk" ELSE "select"
    /\ UNCHANGED <<csv_in, N, min_stat_total, data_orig, csv_out>>

\* One round of the loop of lines 151-152: select_armor raises, and the
\* exception ends the program before anything is written.
SelectArmorRaises ==
    /\ pc = "select"
    /\ \E subset \in SortValues(data, Query(data, Categories[cat + 1][1],
                                                  Categories[cat + 1][2])) :
         LET entries == Entries(data, subset, N)
             shape == GraphShape(Len(subset))
         IN  \/ CsrRaises(entries, shape)
             \/ /\ ~CsrRaises(entries, shape)
                /\ \E matching \in MaximumBipartiteMatching(
                                      CsrMatrix(entries, Len(subset), shape)) :
                      WeightedSolve(Reduced(CsrMatrix(entries, Len(subset), shape),
                                            EmptyCols(matching))) = {}
    /\ pc' = "error"
    /\ UNCHANGED <<csv_in, N, min_stat_total, data_orig, data, cat, locals, csv_out>>

\* lines 154-157
MarkJunk ==
    /\ pc = "junk"
    /\ data_orig' = SetTag(data_orig, JunkQuery(data))
    /\ pc' = "write"
    /\ UNCHANGED <<csv_in, N, min_stat_total, data, cat, locals, csv_out>>

\* line 159
ToCsv ==
    /\ pc = "write"
    /\ csv_out' = data_orig
    /\ pc' = "done"
    /\ UNCHANGED <<csv_in, N, min_stat_total, data_orig, data, cat, locals>>

Next ==
    \/ ReadCsv
    \/ DeriveColumns
    \/ SelectArmorReturns
    \/ SelectArmorRaises
    \/ MarkJunk
    \/ ToCsv

Spec == Init /\ [][Next]_vars

\* ====================================================== the properties
\* select_armor has returned at least once: the variables of select_armor
\* hold the values of its latest call, which was for Categories[cat].
Called == cat >= 1

Exempt(type_) == type_ \in {"Hunter Cloak", "Titan Mark", "Warlock Bond"}

\* The row ends the run not selected and in a slot that is not exempt.
Demoted(i) == ~data[i]["Selected"] /\ ~Exempt(data[i]["Type"])

\* The index labels of the rows of the weighted matching of the latest call.
Winners == { data_subset[row_ind[p] + 1] : p \in DOMAIN row_ind }

\* The slot-node, in the graph of line 57, of entry p of the weighted matching.
SlotOf(p) == remaining_cols[col_ind[p] + 1]

\* The positions (from 0) in data_subset of the rows that are high in both
\* stats of combo l (from 0).
Qualifying(l) ==
    { i \in 0..(Len(data_subset) - 1) :
        /\ data[data_subset[i + 1]][BaseCol(combos[l + 1][1])] >= min_points
        /\ data[data_subset[i + 1]][BaseCol(combos[l + 1][2])] >= min_points }

Labels == 0..(Len(combos) - 1)

\* C1 as claimed: in the written table a row is tagged junk if and only if it
\* is not selected and its slot is not exempt.
C1_JunkIffDemoted ==
    pc = "done" =>
        \A i \in DOMAIN csv_out : csv_out[i]["Tag"] = "junk" <=> Demoted(i)

\* C1 amended: in the written table a row is tagged junk if and only if it is
\* not selected and its slot is not exempt, or it was tagged junk in the input.
C1_JunkIffDemotedOrAlreadyJunk ==
    pc = "done" =>
        \A i \in DOMAIN csv_out :
            csv_out[i]["Tag"] = "junk" <=> (Demoted(i) \/ csv_in[i]["Tag"] = "junk")

C1_Witness ==
    /\ pc = "done"
    /\ \E i \in DOMAIN csv_out : csv_in[i]["Tag"] # "junk" /\ csv_out[i]["Tag"] = "junk"
    /\ \E i \in DOMAIN csv_out : csv_in[i]["Tag"] = "junk" /\ data[i]["Selected"]
    /\ \E i \in DOMAIN csv_out : Exempt(csv_out[i]["Type"]) /\ csv_out[i]["Tag"] # "junk"

\* C2: the written table has the rows and the columns of the input; a demoted
\* row's Tag is "junk", every other cell is the input's, and no derived column
\* is written.
C2_OnlyDemotedTagsChange ==
    pc = "done" =>
        /\ DOMAIN csv_out = DOMAIN csv_in
        /\ \A i \in DOMAIN csv_out :
            /\ DOMAIN csv_out[i] = DOMAIN csv_in[i]
            /\ DOMAIN csv_out[i] \cap DerivedColumns = {}
            /\ \A c \in DOMAIN csv_in[i] \ {"Tag"} : csv_out[i][c] = csv_in[i][c]
            /\ csv_out[i]["Tag"] = IF Demoted(i) THEN "junk" ELSE csv_in[i]["Tag"]

C2_Witness ==
    /\ pc = "done"
    /\ \E i \in DOMAIN csv_out : Demoted(i) /\ csv_in[i]["Tag"] = "keep"
    /\ \E i \in DOMAIN csv_out :
          /\ ~Demoted(i)
          /\ csv_in[i]["Tag"] = "favorite"
          /\ data[i]["Tier"] = "Legendary"

\* C3: the weighted matching gives an item at most one slot-node and a
\* slot-node at most one item, and at most N items win through the slot-nodes
\* of one combo.
C3_AtMostNWinnersPerCombo ==
    Called =>
        /\ Len(row_ind) = Len(col_ind)
        /\ \A p \in DOMAIN row_ind : \A q \in DOMAIN row_ind :
              p # q => row_ind[p] # row_ind[q] /\ col_ind[p] # col_ind[q]
        /\ \A p \in DOMAIN row_ind : row_ind[p] \in 0..(Len(data_subset) - 1)
        /\ \A l \in Labels :
              Cardinality({ p \in DOMAIN row_ind : SlotOf(p) \in columns(N)[l] }) <= N

C3_Witness ==
    /\ Called
    /\ \E l \in Labels :
          /\ Cardinality(Qualifying(l)) > N
          /\ Cardinality({ p \in DOMAIN row_ind : SlotOf(p) \in columns(N)[l] }) = N

\* C4: a row that select_armor marks for a category is a Legendary row of that
\* class and slot whose Not Trash flag is true, so its Total (Base) is at least
\* min_stat_total; a row below min_stat_total that is neither Exotic nor in an
\* exempt slot is never marked and is written with the tag junk.
C4_WinnersAreEligible ==
    /\ Called =>
          \A i \in Winners :
              /\ data[i]["Tier"] = "Legendary"
              /\ data[i]["Equippable"] = Categories[cat][1]
              /\ data[i]["Type"] = Categories[cat][2]
              /\ data[i]["Not Trash"]
              /\ data[i]["Total (Base)"] >= min_stat_total
    /\ pc \in {"select", "junk", "write", "done", "error"} =>
          \A i \in DOMAIN data :
              (data[i]["Total (Base)"] < min_stat_total /\ data[i]["Tier"] # "Exotic")
                  => ~data[i]["Selected"]
    /\ pc = "done" =>
          \A i \in DOMAIN data :
              (/\ data[i]["Total (Base)"] < min_stat_total
               /\ data[i]["Tier"] # "Exotic"
               /\ ~Exempt(data[i]["Type"]))
                  => csv_out[i]["Tag"] = "junk"

C4_Witness ==
    /\ pc = "done"
    /\ \E i \in DOMAIN data :
          /\ data[i]["Tier"] = "Legendary"
          /\ data[i]["Total (Base)"] < min_stat_total
          /\ data[i]["Total High Stats"] >= 2
          /\ csv_in[i]["Tag"] # "junk"
          /\ csv_out[i]["Tag"] = "junk"
    /\ \E i \in DOMAIN data : data[i]["Tier"] = "Legendary" /\ data[i]["Selected"]

Initialized == pc \in {"select", "junk", "write", "done", "error"}

\* C5: from the initialization of Selected on, every Exotic row is selected;
\* no step turns a Selected flag from true to false; and the written table
\* leaves the Tag of every Exotic row as it was.
C5_ExoticAlwaysSelected ==
    /\ [](Initialized => \A i \in DOMAIN data : data[i]["Tier"] = "Exotic" => data[i]["Selected"])
    /\ [][Initialized =>
            /\ DOMAIN data' = DOMAIN data
            /\ \A i \in DOMAIN data : data[i]["Selected"] => data'[i]["Selected"]]_vars
    /\ [](pc = "done" =>
            \A i \in DOMAIN csv_out :
                csv_in[i]["Tier"] = "Exotic" => csv_out[i]["Tag"] = csv_in[i]["Tag"])

C5_Witness ==
    /\ pc = "done"
    /\ \E i \in DOMAIN data :
          /\ data[i]["Tier"] = "Exotic"
          /\ data[i]["Total High Stats"] = 0
          /\ data[i]["Selected"]
    /\ \E i \in DOMAIN data : data[i]["Tier"] = "Legendary" /\ data[i]["Selected"]
    /\ \E i \in DOMAIN data : data[i]["Tier"] = "Legendary" /\ Demoted(i)

\* C6 as claimed: the graph select_armor builds has 9*N right nodes, N for each
\* combo, and an item that qualifies for a combo has an edge, weighted by its
\* rank, to each of the combo's N slot-nodes.
C6_NSlotNodesPerCombo ==
    Called =>
        /\ graph.shape[2] = Len(combos) * N
        /\ \A l \in Labels :
              /\ Cardinality(columns(N)[l]) = N
              /\ \A j \in columns(N)[l] : j < graph.shape[2]
              /\ \A i \in Qualifying(l) : \A j \in columns(N)[l] :
                    /\ <<i, j>> \in DOMAIN graph.data
                    /\ graph.data[<<i, j>>] = Len(data_subset) - i

\* The slot-nodes of the graph of line 57 that belong to a combo.
SlotNodes(l) == { j \in columns(N)[l] : j < graph.shape[2] }

Retained == Range(remaining_cols)

\* C7 as claimed: a slot-node is dropped before the weighted solve if and only
\* if no filtered item qualifies for its combo.
C7_DroppedIffNoQualifier ==
    Called =>
        \A l \in Labels : \A j \in SlotNodes(l) :
            j \notin Retained <=> Qualifying(l) = {}

\* C7 amended: every slot-node whose combo no filtered item qualifies for is
\* dropped, and the slot-nodes that are kept are the ones a matching of the
\* greatest cardinality covers; a slot-node that some item qualifies for is
\* dropped too when that matching leaves it out.
C7_RetainedAreAMaximumMatching ==
    Called =>
        /\ \A l \in Labels : \A j \in SlotNodes(l) :
              Qualifying(l) = {} => j \notin Retained
        /\ \A j \in Retained : \E l \in Labels : j \in SlotNodes(l)
        /\ \E m \in Matchings(graph) :
              /\ { e[2] : e \in m } = Retained
              /\ \A o \in Matchings(graph) : Cardinality(o) <= Cardinality(m)

C7_Witness ==
    /\ Called
    /\ Retained # {}
    /\ \E l \in Labels : \E j \in SlotNodes(l) :
          Qualifying(l) # {} /\ j \notin Retained

\* The rows of the next category that pass the filter of select_armor.
NextEligible ==
    { i \in DOMAIN data : /\ data[i]["Equippable"] = Categories[cat + 1][1]
                          /\ data[i]["Type"] = Categories[cat + 1][2]
                          /\ data[i]["Tier"] = "Legendary"
                          /\ data[i]["Not Trash"] }

\* C8: a round for a category with no eligible row raises nothing, matches no
\* row, leaves every Selected flag (the whole frame) as it is, and hands over
\* to the next category or, after the last one, to the junk marking.
C8_EmptyCategoryIsSkipped ==
    [][(pc = "select" /\ NextEligible = {}) =>
          /\ pc' = IF cat + 1 = Len(Categories) THEN "junk" ELSE "select"
          /\ cat' = cat + 1
          /\ row_ind' = <<>>
          /\ col_ind' = <<>>
          /\ data' = data]_vars

C8_Witness ==
    /\ Called
    /\ pc \in {"select", "junk"}
    /\ data_subset = <<>>
    /\ row_ind = <<>>
    /\ \E i \in DOMAIN data : /\ data[i]["Equippable"] = Categories[cat][1]
                              /\ data[i]["Type"] = Categories[cat][2]
                              /\ ~data[i]["Selected"]

\* The graph of the items of data_subset and the retained slot-nodes, an item
\* joined to the retained slot-nodes of the combos it qualifies for, with the
\* weight k for the first item of data_subset down to 1 for the last.
RankGraph ==
    LET k == Len(data_subset)
        edges == UNION { Qualifying(l) \X (SlotNodes(l) \cap Retained) : l \in Labels }
    IN  [shape |-> <<k, graph.shape[2]>>, data |-> [e \in edges |-> k - e[1]]]

Covering == { m \in Matchings(RankGraph) : { e[2] : e \in m } = Retained }

\* C9: data_subset is in descending order of (Top 2, Top 1, Top 3, Total (Base));
\* with rank k for its first item and 1 for its last, the items that are marked
\* are the items of a matching that covers every retained slot-node and whose
\* total rank no matching that covers every retained slot-node exceeds.
C9_WinnersMaximizeTotalRank ==
    Called =>
        /\ \A a \in DOMAIN data_subset : \A b \in DOMAIN data_subset :
              a < b => LexGE(SortKey(data[data_subset[a]]), SortKey(data[data_subset[b]]))
        /\ \A i \in Winners : data[i]["Selected"]
        /\ \E m \in Covering :
              /\ { e[1] : e \in m } = Range(row_ind)
              /\ \A o \in Covering : Weight(RankGraph, o) <= Weight(RankGraph, m)

C9_Witness ==
    /\ Called
    /\ Len(row_ind) >= 2
    /\ \E l \in Labels : \E i \in Qualifying(l) : i \notin Range(row_ind)
    /\ \E i \in Range(row_ind) : \E j \in 0..(Len(data_subset) - 1) :
          j < i /\ j \notin Range(row_ind)

AllQualifying == UNION { Qualifying(l) : l \in Labels }

\* C10: when some filtered item qualifies for a combo and N is 1 or 2, the
\* best-ranked of the items that qualify for a combo is marked selected.
C10_BestQualifyingItemWins ==
    (Called /\ N \in {1, 2} /\ AllQualifying # {}) =>
        LET best == CHOOSE i \in AllQualifying : \A j \in AllQualifying : i <= j
        IN  /\ best \in Range(row_ind)
            /\ data[data_subset[best + 1]]["Selected"]

C10_Witness ==
    /\ Called
    /\ N \in {1, 2}
    /\ Cardinality(AllQualifying) >= 2
    /\ 0 \notin AllQualifying
    /\ \E i \in AllQualifying : i \notin Range(row_ind)
    /\ \E i \in AllQualifying : i \in Range(row_ind)

====
